---------------------------- MODULE Spec2Model ----------------------------
(***************************************************************************)
(* A model of the Dragonfly cog of vipyrsec/bot:                           *)
(*   - the poll loop (Dragonfly.scan_loop, run, the threshold commands),   *)
(*     specification Spec;                                                 *)
(*   - the report workflow (ReportView, the two report modals,             *)
(*     handle_submit, ReportMethodSwitchConfirmationView), specification   *)
(*     SpecReport.                                                         *)
(* Both go through DragonflyServices.make_request for their upstream       *)
(* calls.  A coroutine is cut into steps at its awaits: what runs between  *)
(* two awaits is one action, and other handlers interleave between steps.  *)
(***************************************************************************)
EXTENDS Integers, Sequences, FiniteSets, TLC

(***************************************************************************)
(* Bounds of the model.                                                    *)
(***************************************************************************)
\* poll cycles started in one behaviour
MaxCycles == 2
\* results in one fetched batch
MaxBatch == 2
\* notification messages carrying a Report button
NumMessages == 1
\* report modals opened in one behaviour
MaxModals == 3
\* calls of make_request in one behaviour
MaxCalls == 2
\* ticks of the clock while those calls run
MaxTicks == 2
\* watcher iterations of the threat-intelligence feed
MaxWatcherCycles == 4
\* presses of the buttons of one triage alert
MaxPresses == 3
\* submits of the modals of that alert
MaxSubmits == 3

(***************************************************************************)
(* Program constants.                                                      *)
(***************************************************************************)
\* DragonflyConfig.interval
Interval == 60
\* DragonflyConfig.threshold
DefaultThreshold == 5

\* Values an operator passes to `threshold set`.
ThresholdValues == {DefaultThreshold, 8}

\* Scan results the upstream service may return (PackageScanResult, reduced
\* to the fields the cog reads: name, version, score).
Packages ==
  { [name |-> "foo", version |-> "1.0", score |-> 9],
    [name |-> "bar", version |-> "2.0", score |-> 3],
    [name |-> "baz", version |-> "0.1", score |-> 5] }

RECURSIVE SeqsUpTo(_, _)
SeqsUpTo(S, n) ==
  IF n = 0 THEN {<<>>}
  ELSE LET shorter == SeqsUpTo(S, n - 1)
       IN  shorter \cup {Append(s, x) : s \in shorter, x \in S}

Batches == SeqsUpTo(Packages, MaxBatch)

Max(a, b) == IF a >= b THEN a ELSE b

\* Clock units one upstream fetch may take: a short one, and one that
\* overruns the loop's period.
FetchDelays == {1, Interval + 1}

\* Clock units that pass between the fetch's answer and run's return: the
\* sends of a cycle are requests to the chat platform, which take time.
SendDelay == 1

(***************************************************************************)
(* The upstream service's answer to one HTTP request.                      *)
(*   no_response : the connection failed or timed out                      *)
(*   otherwise   : a status, whether the body is JSON, and the body.       *)
(* A JSON body is a list of items or an object.                            *)
(***************************************************************************)
JsonList(items) == [list |-> TRUE, items |-> items]
\* an error object, {"detail": ...}
ErrorObject == [list |-> FALSE, items |-> <<>>]
NoResponse == [kind |-> "no_response", status |-> 0, json |-> FALSE, body |-> ErrorObject]
OkReply(items) == [kind |-> "response", status |-> 200, json |-> TRUE, body |-> JsonList(items)]
\* an error answered with a JSON error object
JsonErrorReply == [kind |-> "response", status |-> 500, json |-> TRUE, body |-> ErrorObject]
\* an error answered with a body that is not JSON (a proxy's error page)
TextErrorReply == [kind |-> "response", status |-> 500, json |-> FALSE, body |-> ErrorObject]

\* DragonflyServices.make_request: the request is sent and response.json()
\* is returned.  The status is never looked at; json() raises
\* ContentTypeError (a ClientResponseError carrying the status) when the
\* body is not JSON, and a failed connection raises a ClientError.
make_request(reply) ==
  IF reply.kind = "no_response"
  THEN [out |-> "raise", exc |-> "ClientError", status |-> 0, data |-> ErrorObject]
  ELSE IF ~reply.json
  THEN [out |-> "raise", exc |-> "ClientResponseError", status |-> reply.status, data |-> ErrorObject]
  ELSE [out |-> "return", exc |-> "none", status |-> reply.status, data |-> reply.body]

\* DragonflyServices.get_scanned_packages: make_request, then from_dict on
\* every element of the body.  Iterating an error object yields its keys,
\* and from_dict of a string raises TypeError.
get_scanned_packages(reply) ==
  LET r == make_request(reply)
  IN  IF r.out = "raise" THEN r
      ELSE IF ~r.data.list
      THEN [out |-> "raise", exc |-> "TypeError", status |-> r.status, data |-> ErrorObject]
      ELSE r

FetchReplies == {NoResponse, JsonErrorReply, TextErrorReply} \cup {OkReply(b) : b \in Batches}

(***************************************************************************)
(* State.                                                                  *)
(***************************************************************************)
VARIABLES
  now,              \* the wall clock, datetime.now(tz=UTC)
  next_iteration,   \* tasks.loop: when the next iteration of scan_loop is due
  since,            \* Dragonfly.since, the watermark
  score_threshold,  \* Dragonfly.score_threshold
  task,             \* scan_loop's task: "sleeping", "cycle", "failed"
  pc,               \* position inside the cycle: "idle", "fetch", "classify", "summary"
  cycle,            \* number of cycles started
  outcome,          \* how the latest call of scan_loop ended: "none", "running", "ok", "raised", "escaped"
  run_since,        \* run's argument since
  run_score,        \* run's argument score
  scan_results,     \* run's local scan_results
  idx,              \* run's position in `for result in scan_results` (1-based)
  alerts,           \* messages sent to the alerts channel since the latest cycle began
  summaries,        \* messages sent to the logs channel since the latest cycle began
  captured,         \* exceptions passed to sentry_sdk.capture_exception since then
  fetched_at        \* the clock's reading when the latest fetch was answered

VARIABLES
  reporting_channel,\* whether get_channel(Channels.reporting) is a Messageable
  button,           \* per notification message: the Report button of its ReportView
  modals,           \* every report modal constructed so far, with its submit's progress
  views,            \* every ReportMethodSwitchConfirmationView sent so far
  audit,            \* messages sent to the reporting channel (the modal each is about)
  reported,         \* POST /report requests the upstream service accepted (by modal)
  form              \* what the moderators type into the modals' text inputs

VARIABLES
  stop_next_iteration, \* tasks.loop: stop() was called, the loop ends after the cycle
  last_command,     \* the latest command: its name, whether its invoker holds the
                    \* vipyr_security role, and stop's argument force
  replies           \* what the latest command sent to its channel with ctx.send

pollVars == <<now, next_iteration, since, score_threshold, task, pc, cycle, outcome,
              run_since, run_score, fetched_at, scan_results, idx, alerts, summaries, captured>>

reportVars == <<reporting_channel, button, modals, views, audit, reported, form>>

VARIABLES
  token,            \* DragonflyServices.token (0: the empty string it starts as)
  token_expires_at, \* DragonflyServices.token_expires_at
  calls,            \* the calls of make_request, each with its position
  minted,           \* tokens the auth endpoint has issued
  processed         \* refresh responses _update_token has processed

VARIABLES
  lookup_response,  \* what the latest `lookup` sent on its interaction
  triage,           \* one triage alert: its MalwareView, embed, message and modals
  feed,             \* ThreatIntelFeed: reports_seen and what the watcher announced
  webhook           \* WebhookRemover: the message being handled and what was done

controlVars == <<stop_next_iteration, last_command, replies>>

otherVars == <<lookup_response, triage, feed, webhook>>

tokenVars == <<token, token_expires_at, calls, minted, processed>>

vars == <<pollVars, reportVars, controlVars, tokenVars, otherVars>>

(***************************************************************************)
(* The poll loop.                                                          *)
(***************************************************************************)
\* Dragonfly.__init__ and setup: the threshold is the configured one, the
\* watermark is now - interval, and the loop is started at once.
InitPoll ==
  /\ now = Interval
  /\ next_iteration = now
  /\ since = now - Interval
  /\ score_threshold = DefaultThreshold
  /\ task = "sleeping"
  /\ pc = "idle"
  /\ cycle = 0
  /\ outcome = "none"
  /\ run_since = since
  /\ run_score = score_threshold
  /\ scan_results = <<>>
  /\ idx = 1
  /\ alerts = <<>>
  /\ summaries = <<>>
  /\ captured = <<>>
  /\ fetched_at = since

\* A command as the cog receives it.
Command(name, privileged, force) == [name |-> name, privileged |-> privileged, force |-> force]

\* No command was issued yet, and stop() was not called.
InitControl ==
  /\ stop_next_iteration = FALSE
  /\ last_command = Command("none", FALSE, FALSE)
  /\ replies = <<>>

\* str(PackageScanResult): "name version"
Str(p) == <<p.name, p.version>>

\* Mutant of _build_all_packages_scanned_embed: an empty code block for an
\* empty batch.
_build_all_packages_scanned_embed_block(results) ==
  [none |-> FALSE, lines |-> [i \in 1..Len(results) |-> Str(results[i])]]

\* _build_all_packages_scanned_embed
_build_all_packages_scanned_embed(results) ==
  IF results # <<>>
  THEN [none |-> FALSE, lines |-> [i \in 1..Len(results) |-> Str(results[i])]]
  ELSE [none |-> TRUE, lines |-> <<>>]

\* Mutant of send: the message is put before the ones already in the
\* channel.
send_first(channel, message) == <<message>> \o channel

\* Messageable.send, as the channel sees it: the message comes after every
\* message sent to the channel before it.
send(channel, message) == Append(channel, message)

\* Mutants of Alertable: a strict comparison, and a comparison with the
\* cog's threshold as it is now instead of run's argument.
Alertable_strict(result) == result.score > run_score
Alertable_live(result) == result.score >= score_threshold

\* Mutant of Alertable: a result that was alerted before is not alerted
\* again.
Alertable_unseen(result) ==
  result.score >= run_score /\ \A k \in 1..Len(alerts) : alerts[k].pkg # result

\* run, line 525: the comparison that decides whether a result is alerted
Alertable(result) == result.score >= run_score

\* tasks.loop after an iteration of scan_loop returned: the loop ends when
\* stop() was called, and sleeps until the next iteration otherwise.
AfterIteration == IF stop_next_iteration THEN "stopped" ELSE "sleeping"

\* Mutant of CaughtInScanLoop: the watermark is advanced in the except
\* branch too (a finally instead of an else).
CaughtInScanLoop_advances(exc) ==
  /\ captured' = Append(captured, exc)
  /\ outcome' = "raised"
  /\ task' = AfterIteration
  /\ stop_next_iteration' = FALSE
  /\ pc' = "idle"
  /\ since' = now'

\* except Exception in scan_loop: log, capture, and return normally
CaughtInScanLoop(exc) ==
  /\ captured' = Append(captured, [cycle |-> cycle, exc |-> exc])
  /\ outcome' = "raised"
  /\ task' = AfterIteration
  /\ stop_next_iteration' = FALSE
  /\ pc' = "idle"
  /\ since' = since

\* scan_loop starts an iteration and both channels resolve: run is called
\* with the watermark and the threshold as they are now.
ScanLoopBegin ==
  /\ task = "sleeping"
  /\ cycle < MaxCycles
  /\ now' = Max(now, next_iteration)
  /\ next_iteration' = now' + Interval
  /\ cycle' = cycle + 1
  /\ task' = "cycle"
  /\ pc' = "fetch"
  /\ outcome' = "running"
  /\ run_since' = since
  /\ run_score' = score_threshold
  /\ scan_results' = <<>>
  /\ idx' = 1
  /\ alerts' = <<>>
  /\ summaries' = <<>>
  /\ captured' = <<>>
  /\ UNCHANGED <<since, score_threshold, fetched_at>>
  /\ UNCHANGED <<reportVars, controlVars, tokenVars, otherVars>>

\* scan_loop starts an iteration and get_channel returns no Messageable for
\* the logs or the alerts channel: the assert, which is outside the try,
\* raises out of scan_loop and tasks.loop ends the task.
ScanLoopAssertFails ==
  /\ task = "sleeping"
  /\ cycle < MaxCycles
  /\ now' = Max(now, next_iteration)
  /\ next_iteration' = now' + Interval
  /\ cycle' = cycle + 1
  /\ task' = "failed"
  /\ pc' = "idle"
  /\ outcome' = "escaped"
  /\ scan_results' = <<>>
  /\ idx' = 1
  /\ alerts' = <<>>
  /\ summaries' = <<>>
  /\ captured' = <<>>
  /\ stop_next_iteration' = FALSE
  /\ UNCHANGED <<since, score_threshold, run_since, run_score, fetched_at>>
  /\ UNCHANGED <<reportVars, last_command, replies, tokenVars, otherVars>>

\* run, line 523: the fetch returns or raises
Fetch ==
  /\ task = "cycle"
  /\ pc = "fetch"
  /\ \E reply \in FetchReplies, dt \in FetchDelays :
       LET r == get_scanned_packages(reply)
       IN  /\ now' = now + dt
           /\ IF r.out = "return"
              THEN /\ scan_results' = r.data.items
                   /\ fetched_at' = now'
                   /\ idx' = 1
                   /\ pc' = IF r.data.items = <<>> THEN "summary" ELSE "classify"
                   /\ UNCHANGED <<since, task, outcome, captured, stop_next_iteration>>
              ELSE /\ CaughtInScanLoop(r.exc)
                   /\ UNCHANGED <<scan_results, idx, fetched_at>>
  /\ UNCHANGED <<next_iteration, score_threshold, cycle, run_since, run_score, alerts, summaries>>
  /\ UNCHANGED <<reportVars, last_command, replies, tokenVars, otherVars>>

\* run, lines 524-533: one iteration of the for loop
Classify ==
  /\ task = "cycle"
  /\ pc = "classify"
  /\ LET result == scan_results[idx]
         next == IF idx = Len(scan_results) THEN "summary" ELSE "classify"
     IN  IF Alertable(result)
         THEN \E sent \in BOOLEAN :
                IF sent
                THEN /\ alerts' = send(alerts, [idx |-> idx, pkg |-> result])
                     /\ idx' = idx + 1
                     /\ pc' = next
                     /\ UNCHANGED <<since, task, outcome, captured, stop_next_iteration>>
                ELSE /\ CaughtInScanLoop("HTTPException")
                     /\ UNCHANGED <<alerts, idx>>
         ELSE /\ idx' = idx + 1
              /\ pc' = next
              /\ UNCHANGED <<alerts, since, task, outcome, captured, stop_next_iteration>>
  /\ UNCHANGED <<now, next_iteration, score_threshold, cycle, run_since, run_score, fetched_at,
                 scan_results, summaries>>
  /\ UNCHANGED <<reportVars, last_command, replies, tokenVars, otherVars>>

\* run, line 535, and scan_loop's else branch: the summary is sent and the
\* watermark becomes the clock's reading when run has returned
Summary ==
  /\ task = "cycle"
  /\ pc = "summary"
  /\ \E sent \in BOOLEAN :
       IF sent
       THEN /\ summaries' = send(summaries, _build_all_packages_scanned_embed(scan_results))
            /\ now' = now + SendDelay
            /\ since' = now'
            /\ outcome' = "ok"
            /\ task' = AfterIteration
            /\ stop_next_iteration' = FALSE
            /\ pc' = "idle"
            /\ UNCHANGED captured
       ELSE /\ now' = now
            /\ CaughtInScanLoop("HTTPException")
            /\ UNCHANGED summaries
  /\ UNCHANGED <<next_iteration, score_threshold, cycle, run_since, run_score, fetched_at,
                 scan_results, idx, alerts>>
  /\ UNCHANGED <<reportVars, last_command, replies, tokenVars, otherVars>>

\* run called once more with the arguments of the call that has just
\* returned, the service answering with the same batch (line 523): the
\* for loop starts over.  Both channels keep what the first call sent.
RunAgain ==
  /\ task = "sleeping"
  /\ outcome = "ok"
  /\ Len(summaries) = 1
  /\ cycle < MaxCycles
  /\ cycle' = cycle + 1
  /\ task' = "cycle"
  /\ outcome' = "running"
  /\ idx' = 1
  /\ pc' = IF scan_results = <<>> THEN "summary" ELSE "classify"
  /\ UNCHANGED <<now, next_iteration, since, score_threshold, run_since, run_score,
                 fetched_at, scan_results, alerts, summaries, captured>>
  /\ UNCHANGED <<reportVars, controlVars, tokenVars, otherVars>>

\* Dragonfly.set: the `threshold set <value>` command
\* It carries no role check: `privileged` is whether the invoker holds the
\* vipyr_security role, and the body runs either way.
ThresholdSet ==
  /\ \E value \in ThresholdValues, privileged \in BOOLEAN :
       /\ value # score_threshold
       /\ score_threshold' = value
       /\ last_command' = Command("threshold set", privileged, FALSE)
       /\ replies' = <<"The current threshold has been set to">>
  /\ UNCHANGED <<now, next_iteration, since, task, pc, cycle, outcome, run_since, run_score, fetched_at,
                 scan_results, idx, alerts, summaries, captured, stop_next_iteration>>
  /\ UNCHANGED <<reportVars, tokenVars, otherVars>>

\* Dragonfly.get: the `threshold get` command.  It carries no role check.
ThresholdGet ==
  /\ \E privileged \in BOOLEAN :
       last_command' = Command("threshold get", privileged, FALSE)
  /\ replies' = <<"The current threshold is set to">>
  /\ UNCHANGED <<pollVars, stop_next_iteration>>
  /\ UNCHANGED <<reportVars, tokenVars, otherVars>>

\* Loop.is_running(): the loop has a task that is not done.  A task whose
\* cancellation was requested is not done until the CancelledError has gone
\* through it.
is_running == task \in {"sleeping", "cycle", "cancelling"}

\* Mutant of StartReply: the reply of the branch that starts the loop.
StartReply_started(running) == "Started task"

\* Dragonfly.start, the reply of each branch
StartReply(running) == IF running THEN "Task is already running" ELSE "Started task"

\* Dragonfly.start, issued by a holder of the vipyr_security role: a loop
\* that is not running gets a new task, whose first iteration is due at
\* once.
Start ==
  /\ IF is_running
     THEN UNCHANGED <<task, next_iteration, stop_next_iteration>>
     ELSE /\ task' = "sleeping"
          /\ next_iteration' = now
          /\ stop_next_iteration' = FALSE
  /\ replies' = <<StartReply(is_running)>>
  /\ last_command' = Command("start", TRUE, FALSE)
  /\ UNCHANGED <<now, since, score_threshold, pc, cycle, outcome, run_since, run_score, fetched_at,
                 scan_results, idx, alerts, summaries, captured>>
  /\ UNCHANGED <<reportVars, tokenVars, otherVars>>

\* Dragonfly.stop, issued by a holder of the vipyr_security role: cancel()
\* requests the cancellation of the loop's task, stop() lets the iteration
\* in progress (or, from the sleep, the next one) end and then ends the
\* loop.
Stop ==
  /\ \E force \in BOOLEAN :
       /\ last_command' = Command("stop", TRUE, force)
       /\ IF ~is_running
          THEN /\ replies' = <<"Task is not running">>
               /\ UNCHANGED <<task, stop_next_iteration>>
          ELSE IF force
          THEN /\ task' = "cancelling"
               /\ replies' = <<"Forcing shutdown">>
               /\ UNCHANGED stop_next_iteration
          ELSE /\ stop_next_iteration' = TRUE
               /\ replies' = <<"Executing graceful shutdown">>
               /\ UNCHANGED task
  /\ UNCHANGED <<now, next_iteration, since, score_threshold, pc, cycle, outcome, run_since,
                 run_score, fetched_at, scan_results, idx, alerts, summaries, captured>>
  /\ UNCHANGED <<reportVars, tokenVars, otherVars>>

\* commands.has_role on start and stop: for an invoker without the role the
\* check raises MissingRole and the command's body does not run.
Denied ==
  /\ \E name \in {"start", "stop"}, force \in BOOLEAN :
       /\ name = "start" => ~force
       /\ last_command' = Command(name, FALSE, force)
  /\ replies' = <<>>
  /\ UNCHANGED <<pollVars, stop_next_iteration>>
  /\ UNCHANGED <<reportVars, tokenVars, otherVars>>

\* Mutant of CancelDelivered: the watermark is committed on the way out (a
\* finally instead of an else).
CancelDelivered_commits ==
  /\ task = "cancelling"
  /\ task' = "cancelled"
  /\ pc' = "idle"
  /\ outcome' = IF pc # "idle" THEN "cancelled" ELSE outcome
  /\ stop_next_iteration' = FALSE
  /\ since' = now
  /\ UNCHANGED <<now, next_iteration, score_threshold, cycle, run_since, run_score, fetched_at,
                 scan_results, idx, captured, alerts, summaries>>
  /\ UNCHANGED <<reportVars, last_command, replies, tokenVars, otherVars>>

\* The CancelledError is thrown into the loop's task at the await it is
\* suspended in: it is no Exception, so scan_loop's except and else branches
\* do not run.  A send that was in flight has reached its channel or has
\* not (`landed`).
CancelDelivered ==
  /\ task = "cancelling"
  /\ task' = "cancelled"
  /\ pc' = "idle"
  /\ outcome' = IF pc # "idle" THEN "cancelled" ELSE outcome
  /\ stop_next_iteration' = FALSE
  /\ \E landed \in BOOLEAN :
       /\ alerts' = IF landed /\ pc = "classify" /\ Alertable(scan_results[idx])
                     THEN send(alerts, [idx |-> idx, pkg |-> scan_results[idx]])
                     ELSE alerts
       /\ summaries' = IF landed /\ pc = "summary"
                        THEN send(summaries, _build_all_packages_scanned_embed(scan_results))
                        ELSE summaries
  /\ UNCHANGED <<now, next_iteration, since, score_threshold, cycle, run_since, run_score, fetched_at,
                 scan_results, idx, captured>>
  /\ UNCHANGED <<reportVars, last_command, replies, tokenVars, otherVars>>

(***************************************************************************)
(* The lookup command.                                                     *)
(***************************************************************************)
\* version=None, the optional argument left out
NoVersion == "any"
\* no record is shown
NoRecord == [name |-> "none", version |-> "none", score |-> 0]

\* The interaction of the latest `lookup`: the query, how many responses
\* were sent on it, and the response.  Before any lookup, and when the
\* command's body raised, nothing was sent.
NotResponded(name, version) ==
  [name |-> name, version |-> version, sent |-> 0, kind |-> "none", title |-> "none",
   record |-> NoRecord, view |-> FALSE]

InitLookup == lookup_response = NotResponded("none", NoVersion)

\* The optional `version` argument: absent, or one of the versions.
Versions == {NoVersion} \cup {p.version : p \in Packages}

\* The service's answer to get_scanned_packages(name=, version=): an error,
\* or the records that match the filters (the service does the matching).
Matches(p, name, version) == p.name = name /\ (version = NoVersion \/ p.version = version)

LookupReplies(name, version) ==
  {NoResponse, JsonErrorReply, TextErrorReply}
    \cup {OkReply(b) : b \in {c \in Batches : \A i \in 1..Len(c) : Matches(c[i], name, version)}}

\* _build_package_scan_result_embed, lines 461-462: the title's first word.
\* The score is compared with DragonflyConfig.threshold.
EmbedTitle(scan_result) ==
  IF scan_result.score >= DefaultThreshold THEN "Malicious" ELSE "Benign"

\* Dragonfly.lookup, issued by a holder of the vipyr_security role: the
\* matching records are fetched; the embed of the first one is sent, with
\* no view, or the message that none was found.  When the fetch raises the
\* body sends nothing.
Lookup ==
  /\ \E name \in {p.name : p \in Packages}, version \in Versions :
       \E reply \in LookupReplies(name, version) :
         LET r == get_scanned_packages(reply)
         IN  lookup_response' =
               IF r.out = "raise" THEN NotResponded(name, version)
               ELSE IF r.data.items # <<>>
               THEN [name |-> name, version |-> version, sent |-> 1, kind |-> "embed",
                     title |-> EmbedTitle(r.data.items[1]), record |-> r.data.items[1],
                     view |-> FALSE]
               ELSE [name |-> name, version |-> version, sent |-> 1,
                     kind |-> "No entries were found", title |-> "none",
                     record |-> NoRecord, view |-> FALSE]
  /\ last_command' = Command("lookup", TRUE, FALSE)
  /\ replies' = <<>>
  /\ UNCHANGED <<pollVars, reportVars, stop_next_iteration, tokenVars, triage, feed, webhook>>

(***************************************************************************)
(* The threat-intelligence feed (ThreatIntelFeed.watcher).                 *)
(***************************************************************************)
\* Report files the feed's repository may hold, every one of them with an
\* inspector URL that parses.
Paths == {"a.json", "b.json", "c.json"}

\* ThreatIntelFeed.__init__: nothing seen, nothing announced.
InitFeed ==
  feed = [reports_seen |-> {}, cycles |-> 0, latest |-> {},
          announced |-> [path \in Paths |-> 0]]

\* One iteration of ThreatIntelFeed.watcher.  The download may fail and the
\* channel may be missing (both end the iteration); with nothing seen yet
\* the paths are recorded; otherwise every path not in reports_seen is
\* announced, and reports_seen is left as it is.  A send that raises ends
\* the iteration after some of the announcements.
WatcherCycle ==
  /\ feed.cycles < MaxWatcherCycles
  /\ \E fetched \in BOOLEAN, messageable \in BOOLEAN, paths \in SUBSET Paths :
       IF ~fetched \/ ~messageable
       THEN feed' = [feed EXCEPT !.cycles = @ + 1, !.latest = {}]
       ELSE IF Cardinality(feed.reports_seen) = 0
       THEN feed' = [feed EXCEPT !.cycles = @ + 1, !.latest = {},
                                 !.reports_seen = @ \cup paths]
       ELSE \E raised \in BOOLEAN :
              \E sent \in IF raised THEN SUBSET (paths \ feed.reports_seen)
                          ELSE {paths \ feed.reports_seen} :
                feed' = [feed EXCEPT !.cycles = @ + 1, !.latest = sent,
                                     !.announced = [path \in Paths |->
                                        IF path \in sent THEN @[path] + 1 ELSE @[path]]]
  /\ UNCHANGED <<pollVars, reportVars, controlVars, tokenVars, lookup_response, triage, webhook>>

(***************************************************************************)
(* The webhook remover (WebhookRemover).                                   *)
(***************************************************************************)
\* A webhook URL as WEBHOOK_URL_RE matches it: group 1, everything up to
\* the token, and the token.
WebhookPrefix == "https://discord.com/api/webhooks/id/"
WebhookToken == "token"
webhook_url == <<WebhookPrefix, WebhookToken>>
\* redacted_url = matches[1] + "xxx"
redacted_url == <<WebhookPrefix, "xxx">>

\* What a message's content is: no webhook URL, the URL alone, or the URL
\* among other text.
Contents == {"no url", "url", "url and text"}

\* A message as the listeners see it.
WebhookMessages ==
  [guild : BOOLEAN, bot : BOOLEAN, content : Contents, soc_category : BOOLEAN,
   security_role : BOOLEAN]

\* What handling one event did: the HTTP requests sent for the webhook,
\* whether the message was deleted and its author told, and the log
\* messages sent to the two alert channels.
Handled(event, message, requests, deleted, warned, mod_alerts, soc_alerts) ==
  [event |-> event, message |-> message, requests |-> requests, deleted |-> deleted,
   warned |-> warned, mod_alerts |-> mod_alerts, soc_alerts |-> soc_alerts]

InitWebhook ==
  webhook = Handled("none", [guild |-> FALSE, bot |-> FALSE, content |-> "no url",
                             soc_category |-> FALSE, security_role |-> FALSE],
                    <<>>, FALSE, FALSE, <<>>, <<>>)

\* The exemption test of delete_and_respond, lines 60-68
Exempt(message) ==
  /\ message.content # "url"
  /\ message.soc_category
  /\ message.security_role

\* The answers to the DELETE request: 204 NO CONTENT, or 404.
DeleteStatuses == {204, 404}

\* delete_state, lines 83-86
delete_state(status) ==
  IF status = 204 THEN "The webhook was successfully deleted."
  ELSE "There was an error when deleting the webhook"

\* The text of a log message: the delete state and the URL it quotes.
LogText(status, url) == [delete_state |-> delete_state(status), url |-> url]

\* WebhookRemover.delete_and_respond: the webhook's metadata is fetched and
\* the webhook deleted; then an exempt message is left alone; any other is
\* deleted (unless it is gone already), the author is told, and both logs
\* are written.
delete_and_respond(event, message, got, status, found) ==
  IF ~got THEN Handled(event, message, <<"GET">>, FALSE, FALSE, <<>>, <<>>)
  ELSE IF Exempt(message)
  THEN Handled(event, message, <<"GET", "DELETE">>, FALSE, FALSE, <<>>, <<>>)
  ELSE IF ~found
  THEN Handled(event, message, <<"GET", "DELETE">>, FALSE, FALSE, <<>>, <<>>)
  ELSE Handled(event, message, <<"GET", "DELETE">>, TRUE, TRUE,
               <<LogText(status, redacted_url)>>, <<LogText(status, webhook_url)>>)

\* The body of WebhookRemover.on_message: direct messages and bots'
\* messages are ignored, and so is a message without a webhook URL.
Listener(event) ==
  \E message \in WebhookMessages, got \in BOOLEAN, status \in DeleteStatuses,
     found \in BOOLEAN :
    webhook' =
      IF ~message.guild \/ message.bot \/ message.content = "no url"
      THEN Handled(event, message, <<>>, FALSE, FALSE, <<>>, <<>>)
      ELSE delete_and_respond(event, message, got, status, found)

\* WebhookRemover.on_message
OnMessage ==
  /\ Listener("message")
  /\ UNCHANGED <<pollVars, reportVars, controlVars, tokenVars, lookup_response, triage, feed>>

\* WebhookRemover.on_message_edit: the edited message goes to on_message.
OnMessageEdit ==
  /\ Listener("message_edit")
  /\ UNCHANGED <<pollVars, reportVars, controlVars, tokenVars, lookup_response, triage, feed>>

(***************************************************************************)
(* The triage alert (MalwareView and NoteModal) of one alerted package.    *)
(* An embed field's value is the sequence of its lines.                    *)
(***************************************************************************)
Field(name, value) == [name |-> name, value |-> value]

\* What the alert message shows: the embed and the view of its latest edit.
Snapshot(t) == [footer |-> t.footer, fields |-> t.fields,
                report_disabled |-> t.report_disabled,
                approve_disabled |-> t.approve_disabled]

\* run, lines 526-533: the embed of _build_package_scan_result_triage_embed
\* (no fields, footer "Awaiting triage") is sent with a new MalwareView.
InitTriage ==
  triage = [footer |-> "Awaiting triage", fields |-> <<>>, event_log |-> <<>>,
            report_disabled |-> FALSE, approve_disabled |-> FALSE,
            shown |-> [footer |-> "Awaiting triage", fields |-> <<>>,
                       report_disabled |-> FALSE, approve_disabled |-> FALSE],
            presses |-> 0,
            submits |-> 0,      \* submits of modals, report modals and note modals
            open |-> 0,         \* report modals open, their callbacks in modal.wait()
            stopped |-> 0,      \* report modals stopped, their callbacks not yet resumed
            submitted |-> 0,    \* reports filed through a report modal
            notes_open |-> 0,   \* note modals open
            note_result |-> "none"]

\* MalwareView.add_event, the fields it leaves before the Event log is
\* appended
FieldsKept(fields) ==
  IF Len(fields) = 1
  THEN IF fields[1].name = "Event log" THEN <<>> ELSE fields
  ELSE IF Len(fields) = 2
  THEN IF fields[1].name = "Event log" THEN <<>>
       ELSE IF fields[2].name = "Event log" THEN <<fields[1]>> ELSE fields
  ELSE fields

\* MalwareView.add_event: the event joins self.event_log, and the Event log
\* field is written anew at the end of the embed's fields.
add_event(t, message) ==
  LET log == Append(t.event_log, message)
  IN  [t EXCEPT !.event_log = log,
                !.fields = Append(FieldsKept(t.fields), Field("Event log", log))]

\* MalwareView.update_status
update_status(t, status) == [t EXCEPT !.footer = status]

\* MalwareView.report up to modal.wait(): Approve is enabled, the event and
\* the status are written to the embed, and the report modal is sent.
TriagePressReport ==
  /\ triage.presses < MaxPresses
  /\ ~triage.shown.report_disabled
  /\ triage' = [update_status(add_event([triage EXCEPT !.approve_disabled = FALSE],
                                        "Reported by"),
                              "Flagged as malicious")
                  EXCEPT !.presses = @ + 1, !.open = @ + 1]
  /\ UNCHANGED <<pollVars, reportVars, controlVars, tokenVars, lookup_response, feed, webhook>>

\* A report modal is submitted.  When on_submit returns the report was
\* filed and the modal is stopped; when it raises, on_error answers and the
\* modal stays as it is.
TriageModalSubmit ==
  /\ triage.open > 0
  /\ triage.submits < MaxSubmits
  /\ \E filed \in BOOLEAN :
       IF filed
       THEN triage' = [triage EXCEPT !.open = @ - 1, !.stopped = @ + 1, !.submitted = @ + 1,
                                     !.submits = @ + 1]
       ELSE triage' = [triage EXCEPT !.submits = @ + 1]
  /\ UNCHANGED <<pollVars, reportVars, controlVars, tokenVars, lookup_response, feed, webhook>>

\* MalwareView.report after modal.wait() returned: the Report button is
\* disabled and the message edited with the view and the embed.
TriageReportResumes ==
  /\ triage.stopped > 0
  /\ LET t == [triage EXCEPT !.stopped = @ - 1, !.report_disabled = TRUE]
     IN  triage' = [t EXCEPT !.shown = Snapshot(t)]
  /\ UNCHANGED <<pollVars, reportVars, controlVars, tokenVars, lookup_response, feed, webhook>>

\* MalwareView.approve
PressApprove ==
  /\ triage.presses < MaxPresses
  /\ ~triage.shown.approve_disabled
  /\ LET t == [update_status(add_event([triage EXCEPT !.report_disabled = FALSE],
                                       "Approved by"),
                             "Flagged as benign")
                 EXCEPT !.approve_disabled = TRUE, !.presses = @ + 1]
     IN  triage' = [t EXCEPT !.shown = Snapshot(t)]
  /\ UNCHANGED <<pollVars, reportVars, controlVars, tokenVars, lookup_response, feed, webhook>>

\* MalwareView.add_note: a NoteModal on the view's embed is sent.
PressAddNote ==
  /\ triage.presses < MaxPresses
  /\ triage' = [triage EXCEPT !.presses = @ + 1, !.notes_open = @ + 1]
  /\ UNCHANGED <<pollVars, reportVars, controlVars, tokenVars, lookup_response, feed, webhook>>

\* NoteModal.on_submit, the match statement: the notes and the event log
\* it reads from the embed's fields.  With the Notes field alone no branch
\* assigns event_log.
NotesRead(fields, content) ==
  IF Len(fields) = 0 THEN <<content>>
  ELSE IF fields[1].name = "Notes" THEN Append(fields[1].value, content)
  ELSE IF Len(fields) = 1 THEN <<content>>
  ELSE Append(fields[2].value, content)

EventLogBound(fields) == ~(Len(fields) = 1 /\ fields[1].name = "Notes")

EventLogRead(fields) ==
  IF Len(fields) = 0 THEN <<>>
  ELSE IF Len(fields) = 1 THEN fields[1].value
  ELSE IF fields[1].name = "Notes" THEN fields[2].value
  ELSE fields[1].value

\* NoteModal.on_submit: the Notes field is written first, then the Event
\* log when there is one, and the message is edited.  Reading the unbound
\* event_log raises after the Notes field was written: on_error answers and
\* the message is not edited; the modal, not stopped, stays open.
NoteSubmit ==
  /\ triage.notes_open > 0
  /\ triage.submits < MaxSubmits
  /\ LET notes == Field("Notes", NotesRead(triage.fields, "note"))
     IN  IF ~EventLogBound(triage.fields)
         THEN triage' = [triage EXCEPT !.fields = <<notes>>, !.note_result = "raised",
                                       !.submits = @ + 1]
         ELSE LET event_log == EventLogRead(triage.fields)
                  t == [triage EXCEPT !.fields = IF event_log # <<>>
                                                  THEN <<notes, Field("Event log", event_log)>>
                                                  ELSE <<notes>>,
                                      !.note_result = "edited",
                                      !.notes_open = @ - 1,
                                      !.submits = @ + 1]
              IN  triage' = [t EXCEPT !.shown = Snapshot(t)]
  /\ UNCHANGED <<pollVars, reportVars, controlVars, tokenVars, lookup_response, feed, webhook>>

InitOther == InitLookup /\ InitTriage /\ InitFeed /\ InitWebhook

(***************************************************************************)
(* The report workflow.                                                    *)
(*                                                                         *)
(* A modal is a record:                                                    *)
(*   kind    "api" (ConfirmReportModal) or "email"                         *)
(*           (ConfirmEmailReportModal)                                     *)
(*   package the package it was constructed for                            *)
(*   msg     the notification message whose Report button began the chain  *)
(*   view    the fallback view whose button opened it (0: the Report       *)
(*           button did), via: "report", "confirm" or "cancel"             *)
(*   cb      the callback that opened it: "wait" (ReportView.report, in    *)
(*           modal.wait()), "disable" (a fallback button's callback, after *)
(*           send_modal and before disable_all), "end"                     *)
(*   st      "open", then on submit "report" (awaiting report_package),    *)
(*           and "done" (on_submit returned, the modal is stopped) or      *)
(*           "failed" (on_error ran)                                       *)
(*   status  the HTTP status the service answered to POST /report (0: no   *)
(*           answer yet, or none at all)                                   *)
(*   error   what on_error was given: "none", "ClientResponseError",       *)
(*           "other"                                                       *)
(*   resp    the response the user was sent on the submit interaction:     *)
(*           "none", "Reported!", "fallback", "generic"                    *)
(*   raised  the error on_error raised again ("none": it returned)         *)
(*   report  the PackageReport on_submit built (NoReport before the submit)*)
(* Discord is taken to accept every interaction response and every edit of *)
(* a message the workflow makes; a send to the reporting channel may fail. *)
(***************************************************************************)
Messages == 1..NumMessages

\* ReportView.payload of notification message m
Payload(m) == IF m = 1 THEN [name |-> "foo", version |-> "1.0", score |-> 9]
                       ELSE [name |-> "bar", version |-> "2.0", score |-> 3]

\* What the service may answer to POST /report.
ReportReplies == {NoResponse, OkReply(<<>>), JsonErrorReply, TextErrorReply}

\* TextInput.value of the three inputs, as typed: "" is an input left
\* empty.  Every submit of one behaviour is typed the same way.
Forms ==
  { [inspector_url |-> "", additional_information |-> "", recipient |-> ""],
    [inspector_url |-> "https://inspector", additional_information |-> "malware",
     recipient |-> "security@pypi"] }

\* Python's None
None == "None"

\* Mutant of OrNone: the input's value as it is.
OrNone_raw(value) == value

\* `value or None`
OrNone(value) == IF value = "" THEN None ELSE value

\* no PackageReport built yet
NoReport == [name |-> "", version |-> "", inspector_url |-> "", additional_information |-> "",
             recipient |-> "", use_email |-> FALSE]

\* on_submit of the two modals: the PackageReport built from the inputs.
\* ConfirmReportModal's additional_information is a required input, which
\* Discord does not accept empty, and it has no recipient input.
PackageReport(kind, package, inputs) ==
  IF kind = "email"
  THEN [name |-> package.name, version |-> package.version,
        inspector_url |-> OrNone(inputs.inspector_url),
        additional_information |-> OrNone(inputs.additional_information),
        recipient |-> OrNone(inputs.recipient),
        use_email |-> TRUE]
  ELSE [name |-> package.name, version |-> package.version,
        inspector_url |-> OrNone(inputs.inspector_url),
        additional_information |-> IF inputs.additional_information = "" THEN "required"
                                   ELSE inputs.additional_information,
        recipient |-> None,
        use_email |-> FALSE]

\* No modal opened, no report filed; the reporting channel resolves to a
\* Messageable or does not, for the whole behaviour.
InitReport ==
  /\ reporting_channel \in BOOLEAN
  /\ form \in Forms
  /\ button = [m \in Messages |-> [disabled |-> FALSE]]
  /\ modals = <<>>
  /\ views = <<>>
  /\ audit = {}
  /\ reported = {}

\* _build_modal_title: the text is made of the name and the version, and a
\* text of 45 characters or more is cut to 42 followed by an ellipsis.
_build_modal_title(name, version) ==
  LET length == Len("Confirm report for ") + Len(name) + Len(" v") + Len(version)
  IN  [name |-> name, version |-> version,
       kept |-> IF length >= 45 THEN 42 ELSE length,
       ellipsis |-> length >= 45]

\* Package.inspector_url, which the service derives from the release
inspector_url(package) == <<"https://inspector.pypi.io", package.name, package.version>>

\* The default of the inspector_url TextInput that is the class attribute
\* of the modal class `kind`: the text inputs are declared on the class,
\* and __init__ assigns self.inspector_url.default while self.inspector_url
\* still is the class's item, so the class keeps what the latest __init__
\* of that class assigned.
ClassDefault(kind) ==
  LET made == {i \in 1..Len(modals) : modals[i].kind = kind}
  IN  IF made = {} THEN <<>>
      ELSE inspector_url(modals[CHOOSE i \in made : \A j \in made : j <= i].package)

\* Mutant of CopiedDefault: the items are copied before the assignment.
CopiedDefault_before(before, assigned) == before

\* Modal.__init__ copies the class's items into the instance, and both
\* __init__ call it after the assignment (lines 119 and 177): the
\* instance's input carries the default just assigned, whatever the class's
\* item carried before.
CopiedDefault(before, assigned) == assigned

\* ConfirmReportModal.__init__ / ConfirmEmailReportModal.__init__
NewModal(kind, package, msg, view, via) ==
  [kind |-> kind, package |-> package, msg |-> msg, view |-> view, via |-> via,
   title |-> _build_modal_title(package.name, package.version),
   default |-> CopiedDefault(ClassDefault(kind), inspector_url(package)),
   cb |-> IF via \in {"report", "alert"} THEN "wait" ELSE "disable",
   st |-> "open", status |-> 0, error |-> "none", resp |-> "none", raised |-> "none",
   report |-> NoReport]

\* The payloads of the views whose Report button opens a report modal: the
\* alerted packages, one of them with a name that makes the title long.
Payloads ==
  { [name |-> "foo", version |-> "1.0", score |-> 9],
    [name |-> "a-package-with-quite-a-long-name", version |-> "2024.1", score |-> 7] }

\* The Report button of the view of any alerted package (ReportView.report
\* and MalwareView.report alike) up to modal.wait(): the modal is built for
\* the view's payload and sent.
ReportPressed ==
  /\ Len(modals) < MaxModals
  /\ \E package \in Payloads :
       modals' = Append(modals, NewModal("api", package, 0, 0, "alert"))
  /\ UNCHANGED <<reporting_channel, button, views, audit, reported, form>>
  /\ UNCHANGED <<pollVars, controlVars, tokenVars, otherVars>>

\* ReportView.report up to modal.wait(): a press of the Report button, which
\* the client offers for as long as the message shows the button enabled.
PressReport ==
  /\ Len(modals) < MaxModals
  /\ \E m \in Messages :
       /\ ~button[m].disabled
       /\ modals' = Append(modals, NewModal("api", Payload(m), m, 0, "report"))
  /\ UNCHANGED <<reporting_channel, button, views, audit, reported, form>>
  /\ UNCHANGED <<pollVars, controlVars, tokenVars, otherVars>>

\* ReportView.report after modal.wait(): the modal was stopped (its
\* on_submit returned), so the button is disabled and the message edited.
\* A modal has no timeout, and one whose on_submit raised is never stopped.
ModalWaitReturns ==
  /\ \E i \in 1..Len(modals) :
       /\ modals[i].cb = "wait"
       /\ modals[i].st = "done"
       /\ modals' = [modals EXCEPT ![i].cb = "end"]
       /\ button' = [button EXCEPT ![modals[i].msg].disabled = TRUE]
  /\ UNCHANGED <<reporting_channel, views, audit, reported, form>>
  /\ UNCHANGED <<pollVars, controlVars, tokenVars, otherVars>>

\* Mutant of ErrorAnswer: an error that is no ClientResponseError is
\* re-raised without a message to the user.
ErrorAnswer_silent(error) == IF error = "ClientResponseError" THEN "fallback" ELSE "none"

\* on_error of both modals, the isinstance test: a ClientResponseError is
\* answered with the fallback view, anything else with the generic message.
ErrorAnswer(error) == IF error = "ClientResponseError" THEN "fallback" ELSE "generic"

\* Mutant of Reraise: the error is swallowed.
Reraise_never(error) == "none"

\* on_error of both modals, its last line: an error that is no
\* ClientResponseError is raised again after the generic message.
Reraise(error) == IF error = "ClientResponseError" THEN "none" ELSE error

\* on_error of both modals: the modal after it ran.  The modal is not
\* stopped.
on_error(m, error) ==
  [m EXCEPT !.st = "failed", !.error = error, !.resp = ErrorAnswer(error),
            !.raised = Reraise(error)]

\* ReportMethodSwitchConfirmationView.__init__, for the view on_error sends
ViewsAfterError(i, error) ==
  IF ErrorAnswer(error) = "fallback"
  THEN Append(views, [previous_modal |-> i, kind |-> modals[i].kind,
                      package |-> modals[i].package, msg |-> modals[i].msg,
                      confirm_disabled |-> FALSE, cancel_disabled |-> FALSE])
  ELSE views

\* on_submit and handle_submit up to the await of report_package: the
\* reporting channel is resolved and, when it is Messageable, the audit
\* embed is sent to it (`sent`: the send returned) before report_package is
\* called; a send that raises ends the submit in on_error.
Submit ==
  /\ \E i \in 1..Len(modals), sent \in BOOLEAN :
       LET built == [modals[i] EXCEPT
                       !.report = PackageReport(modals[i].kind, modals[i].package, form)]
       IN  /\ modals[i].st = "open"
           /\ IF ~reporting_channel
              THEN /\ modals' = [modals EXCEPT ![i] = [built EXCEPT !.st = "report"]]
                   /\ UNCHANGED <<audit, views>>
              ELSE IF sent
              THEN /\ modals' = [modals EXCEPT ![i] = [built EXCEPT !.st = "report"]]
                   /\ audit' = audit \cup {i}
                   /\ UNCHANGED views
              ELSE /\ modals' = [modals EXCEPT ![i] = on_error(built, "other")]
                   /\ views' = ViewsAfterError(i, "other")
                   /\ UNCHANGED audit
  /\ UNCHANGED <<reporting_channel, button, reported, form>>
  /\ UNCHANGED <<pollVars, controlVars, tokenVars, otherVars>>

\* DragonflyServices.report_package: POST /report through make_request
report_package(reply) == make_request(reply)

\* handle_submit, lines 81-83: report_package returns or raises; when it
\* returns "Reported!" is sent, and on_submit returning stops the modal.
ReportCall ==
  /\ \E i \in 1..Len(modals), reply \in ReportReplies :
       LET r == report_package(reply)
           called == [modals[i] EXCEPT !.status = r.status]
           e == IF r.exc = "ClientResponseError" THEN r.exc ELSE "other"
       IN  /\ modals[i].st = "report"
           /\ reported' = IF reply.kind = "response" /\ reply.status < 400
                          THEN reported \cup {i} ELSE reported
           /\ IF r.out = "return"
              THEN /\ modals' = [modals EXCEPT ![i] = [called EXCEPT !.st = "done",
                                                                     !.resp = "Reported!"]]
                   /\ UNCHANGED views
              ELSE /\ modals' = [modals EXCEPT ![i] = on_error(called, e)]
                   /\ views' = ViewsAfterError(i, e)
  /\ UNCHANGED <<reporting_channel, button, audit, form>>
  /\ UNCHANGED <<pollVars, controlVars, tokenVars, otherVars>>

\* Mutant of ConfirmKind: the same transport again.
ConfirmKind_same(previous) == previous

\* ReportMethodSwitchConfirmationView.confirm, lines 219-222: the modal of
\* the other transport
ConfirmKind(previous) == IF previous = "api" THEN "email" ELSE "api"

\* ReportMethodSwitchConfirmationView.cancel, line 232: type(previous_modal)
CancelKind(previous) == previous

\* The client offers a view's buttons for as long as the message shows them
\* enabled.
Pressable(v) == ~views[v].confirm_disabled /\ ~views[v].cancel_disabled

\* ReportMethodSwitchConfirmationView.confirm up to the await of send_modal
PressConfirm ==
  /\ Len(modals) < MaxModals
  /\ \E v \in 1..Len(views) :
       /\ Pressable(v)
       /\ modals' = Append(modals, NewModal(ConfirmKind(views[v].kind), views[v].package,
                                            views[v].msg, v, "confirm"))
  /\ UNCHANGED <<reporting_channel, button, views, audit, reported, form>>
  /\ UNCHANGED <<pollVars, controlVars, tokenVars, otherVars>>

\* ReportMethodSwitchConfirmationView.cancel up to the await of send_modal
PressCancel ==
  /\ Len(modals) < MaxModals
  /\ \E v \in 1..Len(views) :
       /\ Pressable(v)
       /\ modals' = Append(modals, NewModal(CancelKind(views[v].kind), views[v].package,
                                            views[v].msg, v, "cancel"))
  /\ UNCHANGED <<reporting_channel, button, views, audit, reported, form>>
  /\ UNCHANGED <<pollVars, controlVars, tokenVars, otherVars>>

\* confirm and cancel after send_modal: disable_all, then the edit of the
\* message that shows the view
DisableAll ==
  /\ \E i \in 1..Len(modals) :
       /\ modals[i].cb = "disable"
       /\ modals' = [modals EXCEPT ![i].cb = "end"]
       /\ views' = [views EXCEPT ![modals[i].view].confirm_disabled = TRUE,
                                 ![modals[i].view].cancel_disabled = TRUE]
  /\ UNCHANGED <<reporting_channel, button, audit, reported, form>>
  /\ UNCHANGED <<pollVars, controlVars, tokenVars, otherVars>>

(***************************************************************************)
(* The token of DragonflyServices.                                         *)
(*                                                                         *)
(* make_request is cut at its awaits.  A call is a record:                 *)
(*   pc        "idle", "refreshing" (awaiting the auth endpoint's answer), *)
(*             "refreshed" (_update_token has stored the new token),       *)
(*             "request" (the request is sent), "done", "failed"           *)
(*   expired   whether token_expires_at > now was false at its check       *)
(*   seen      token_expires_at as it was at its check                     *)
(*   refreshes POSTs to the auth endpoint the call has made                *)
(*   got       the token its refresh was answered with (0: none)           *)
(*   order     the position of its refresh response among those processed  *)
(*   sent_with the token in its request's Authorization header (-1: no     *)
(*             request sent)                                               *)
(***************************************************************************)
Calls == 1..MaxCalls

\* expires_in of the auth endpoint's answers, in ticks
ExpiresIn == {1, 2}

\* DragonflyServices.__init__: the empty token, expiring now
InitToken ==
  /\ token = 0
  /\ token_expires_at = now
  /\ calls = [c \in Calls |-> [pc |-> "idle", expired |-> FALSE, seen |-> 0, refreshes |-> 0,
                                got |-> 0, order |-> 0, sent_with |-> -1]]
  /\ minted = 0
  /\ processed = 0

\* Mutant of Expired: a refresh on every call.
Expired_always(expires_at, t) == TRUE

\* _update_token, lines 86-87: it returns at once when the token expires
\* later than now
Expired(expires_at, t) == ~(expires_at > t)

\* Mutant of HeldAfterRefresh: a token already refreshed is kept.
HeldAfterRefresh_first(held, answer) == IF held.token = 0 THEN answer ELSE held

\* _update_token, lines 99-100: the answer's token and expiry are stored
HeldAfterRefresh(held, answer) == answer

\* make_request up to its first await: _update_token's check, and, when the
\* token is not expired, the header built from self.token and the request
\* sent.
CallBegins ==
  /\ \E c \in Calls :
       /\ calls[c].pc = "idle"
       /\ LET checked == [calls[c] EXCEPT !.expired = (token_expires_at <= now),
                                           !.seen = token_expires_at]
          IN  IF Expired(token_expires_at, now)
              THEN calls' = [calls EXCEPT ![c] = [checked EXCEPT !.pc = "refreshing",
                                                                 !.refreshes = @ + 1]]
              ELSE calls' = [calls EXCEPT ![c] = [checked EXCEPT !.pc = "request",
                                                                 !.sent_with = token]]
  /\ UNCHANGED <<token, token_expires_at, minted, processed>>
  /\ UNCHANGED <<pollVars, reportVars, controlVars, otherVars>>

\* _update_token, lines 97-100: the auth endpoint answers the password
\* grant.  An answer with a token is stored; any other answer (no
\* access_token in it, no JSON, no answer) raises out of make_request.
AuthAnswers ==
  /\ \E c \in Calls, ok \in BOOLEAN, expires_in \in ExpiresIn :
       /\ calls[c].pc = "refreshing"
       /\ IF ok
          THEN LET held == HeldAfterRefresh(
                             [token |-> token, expires_at |-> token_expires_at],
                             [token |-> minted + 1, expires_at |-> now + expires_in])
               IN  /\ token' = held.token
                   /\ token_expires_at' = held.expires_at
                   /\ minted' = minted + 1
                   /\ processed' = processed + 1
                   /\ calls' = [calls EXCEPT ![c].pc = "refreshed", ![c].got = minted + 1,
                                             ![c].order = processed + 1]
          ELSE /\ calls' = [calls EXCEPT ![c].pc = "failed"]
               /\ UNCHANGED <<token, token_expires_at, minted, processed>>
  /\ UNCHANGED <<pollVars, reportVars, controlVars, otherVars>>

\* make_request, lines 112-126, after _update_token returned from a
\* refresh: the header is built from self.token and the request is sent.
RequestSent ==
  /\ \E c \in Calls :
       /\ calls[c].pc = "refreshed"
       /\ calls' = [calls EXCEPT ![c].pc = "request", ![c].sent_with = token]
  /\ UNCHANGED <<token, token_expires_at, minted, processed>>
  /\ UNCHANGED <<pollVars, reportVars, controlVars, otherVars>>

\* make_request, line 127: the request is answered
RequestAnswered ==
  /\ \E c \in Calls :
       /\ calls[c].pc = "request"
       /\ calls' = [calls EXCEPT ![c].pc = "done"]
  /\ UNCHANGED <<token, token_expires_at, minted, processed>>
  /\ UNCHANGED <<pollVars, reportVars, controlVars, otherVars>>

\* the clock moves on
Tick ==
  /\ now < Interval + MaxTicks
  /\ now' = now + 1
  /\ UNCHANGED <<next_iteration, since, score_threshold, task, pc, cycle, outcome, run_since,
                 run_score, fetched_at, scan_results, idx, alerts, summaries, captured>>
  /\ UNCHANGED <<reportVars, controlVars, tokenVars, otherVars>>

(***************************************************************************)
(* The specifications.                                                     *)
(***************************************************************************)
Init == InitPoll /\ InitReport /\ InitControl /\ InitToken /\ InitOther

Next ==
  \/ ScanLoopBegin
  \/ ScanLoopAssertFails
  \/ Fetch
  \/ Classify
  \/ Summary
  \/ ThresholdSet
  \/ ThresholdGet
  \/ Denied

\* The report workflow is left out of the loop's specifications: its part
\* of the state is fixed.
InitLoop == Init /\ reporting_channel /\ form.recipient = ""

\* the poll loop and the threshold commands
Spec == InitLoop /\ [][Next]_vars

NextReport ==
  \/ PressReport
  \/ ModalWaitReturns
  \/ Submit
  \/ ReportCall
  \/ PressConfirm
  \/ PressCancel
  \/ DisableAll

NextControl ==
  \/ ScanLoopBegin
  \/ ScanLoopAssertFails
  \/ Fetch
  \/ Classify
  \/ Summary
  \/ Start
  \/ Stop
  \/ CancelDelivered

\* the poll loop with the commands that start and stop it
SpecControl == InitLoop /\ [][NextControl]_vars

NextToken ==
  \/ CallBegins
  \/ AuthAnswers
  \/ RequestSent
  \/ RequestAnswered
  \/ Tick

\* concurrent calls of make_request and the token they share
SpecToken == InitLoop /\ [][NextToken]_vars

\* The modals' inputs are all left empty, the case in which every field of
\* a report depends on `or None`; the reporting channel resolves or does
\* not.  Inputs that are typed are part of SpecIsolation.
InitEmptyForm == Init /\ form.recipient = ""

\* the report workflow
SpecReport == InitEmptyForm /\ [][NextReport]_vars

(***************************************************************************)
(* Claims about the poll loop, checked under Spec.                         *)
(***************************************************************************)
CycleRaises == outcome = "running" /\ outcome' = "raised"
CycleEscapes == outcome' = "escaped" /\ outcome # "escaped"
CycleSucceeds == outcome = "running" /\ outcome' = "ok"

\* C1: watermark monotonicity.  A cycle that raises leaves since as it was;
\* a cycle that completes sets since to the clock's reading at that moment,
\* which is later than the old watermark; since changes in no other step
\* and never decreases.
C1_WatermarkMonotone ==
  [][ /\ since' >= since
      /\ (CycleRaises \/ CycleEscapes => since' = since)
      /\ (CycleSucceeds => since' = now' /\ since' > since)
      /\ (since' # since => CycleSucceeds) ]_vars

\* C1 witness: a cycle that raised, after an earlier one advanced the
\* watermark past its initial value.
C1_Witness == outcome = "raised" /\ cycle >= 2 /\ since > 0 /\ since < now

\* C2 (as claimed): whatever is raised in a poll cycle, the resolving of
\* the channels included, is passed to the observability sink and does not
\* leave scan_loop, so the loop's task stays alive.
C2_EveryCycleErrorSwallowed ==
  /\ outcome # "escaped"
  /\ task # "failed"
  /\ (outcome = "raised" => Len(captured) = 1)

AlertsFor(i) == {k \in 1..Len(alerts) : alerts[k].idx = i /\ alerts[k].pkg = scan_results[i]}

\* C3: after a successful cycle every fetched result whose score is at or
\* above the threshold the cycle ran with has exactly one alert message,
\* every result below it has none, there is no other alert, and the one
\* summary message lists every fetched result.
C3_AlertsAndSummary ==
  outcome = "ok" =>
    /\ \A i \in 1..Len(scan_results) :
         Cardinality(AlertsFor(i)) = IF scan_results[i].score >= run_score THEN 1 ELSE 0
    /\ Len(alerts) = Cardinality({i \in 1..Len(scan_results) : scan_results[i].score >= run_score})
    /\ Len(summaries) = 1
    /\ Len(summaries[1].lines) = Len(scan_results)
    /\ \A i \in 1..Len(scan_results) :
         summaries[1].lines[i] = <<scan_results[i].name, scan_results[i].version>>

\* C3 witness: a successful cycle whose batch holds a result at or above
\* the threshold and one below it.
C3_Witness ==
  /\ outcome = "ok"
  /\ \E i, j \in 1..Len(scan_results) :
       scan_results[i].score >= run_score /\ scan_results[j].score < run_score
  /\ Len(alerts) = 1

ClassifiedOne == task = "cycle" /\ pc = "classify" /\ idx' = idx + 1
AlertSent == Len(alerts') = Len(alerts) + 1

\* C10 (as claimed): a result is alerted exactly when its score is at or
\* above the cog's threshold as it is at the moment of the classification.
C10_ThresholdReadAtClassification ==
  [][ ClassifiedOne => (AlertSent <=> scan_results[idx].score >= score_threshold) ]_vars

\* C10 (amended): a result is alerted exactly when its score is at or above
\* the threshold as it was when the cycle began; a cycle that begins takes
\* the cog's threshold of that moment, so a `threshold set` governs every
\* cycle that begins after it, and no step changes it during a cycle.
C10_ThresholdCapturedAtCycleStart ==
  [][ /\ (ClassifiedOne => (AlertSent <=> scan_results[idx].score >= run_score))
      /\ (task = "sleeping" /\ task' = "cycle" => run_score' = score_threshold)
      /\ (task = "cycle" => run_score' = run_score) ]_vars

\* C10 witness: mid-cycle, after one alert, the cog's threshold differs
\* from the one the cycle began with, and the result to classify next lies
\* between the two.
C10_Witness ==
  /\ task = "cycle" /\ pc = "classify"
  /\ Len(alerts) >= 1
  /\ score_threshold # run_score
  /\ (scan_results[idx].score >= run_score) # (scan_results[idx].score >= score_threshold)

\* C11: within a cycle the alerts are in the channel in the order of the
\* fetched results (each alert is for a later result than the alert before
\* it); no alert is sent once the cycle's summary is sent, and a summary is
\* sent only when every result has been gone through; a cycle that raised,
\* a failed alert send included, has no summary.
C11_AlertsInOrderThenSummary ==
  /\ [](\A k, l \in 1..Len(alerts) :
          /\ alerts[k].pkg = scan_results[alerts[k].idx]
          /\ k < l => alerts[k].idx < alerts[l].idx)
  /\ [](outcome = "raised" => summaries = <<>>)
  /\ [][ /\ (Len(alerts') > Len(alerts) => summaries = <<>> /\ summaries' = <<>>)
         /\ (Len(summaries') > Len(summaries) =>
               /\ alerts' = alerts
               /\ idx = Len(scan_results) + 1
               /\ \A i \in 1..Len(scan_results) :
                    scan_results[i].score >= run_score => \E k \in 1..Len(alerts) : alerts[k].idx = i) ]_vars

\* C11 witness: a cycle that sent two alerts, for two different results,
\* and then its summary.
C11_Witness ==
  /\ outcome = "ok"
  /\ Len(alerts) = 2
  /\ alerts[1].pkg # alerts[2].pkg
  /\ Len(summaries) = 1

\* the latest cycle fetched an empty batch and has ended normally
EmptyCycleDone == outcome = "ok" /\ scan_results = <<>>

\* C12: a cycle that fetched zero results and completed has sent exactly
\* one summary, which says that no packages were scanned, and no alert, and
\* has advanced the watermark to the clock's reading.
C12_EmptyBatchSummary ==
  EmptyCycleDone =>
    /\ Len(summaries) = 1
    /\ summaries[1].none
    /\ summaries[1].lines = <<>>
    /\ alerts = <<>>
    /\ since = now
    /\ since > run_since

\* C12 witness: a completed empty cycle that moved the watermark.
C12_Witness == EmptyCycleDone /\ cycle >= 1 /\ since > run_since /\ summaries # <<>>

\* C18 (as claimed): the threshold changes only in a `threshold set` of an
\* invoker who holds the privileged role, and a command of an invoker
\* without it changes neither the threshold nor the loop's state.
C18_ControlsArePrivileged ==
  [][ /\ (score_threshold' # score_threshold =>
             last_command'.name = "threshold set" /\ last_command'.privileged)
      /\ ((ThresholdSet \/ ThresholdGet \/ Denied) /\ ~last_command'.privileged =>
             UNCHANGED <<score_threshold, task, stop_next_iteration, next_iteration>>) ]_vars

(***************************************************************************)
(* Claims about start and stop, checked under SpecControl.                 *)
(***************************************************************************)
\* the loop's state and everything the loop works on
loopState == <<pollVars, stop_next_iteration>>

IsPrefix(a, b) == Len(a) <= Len(b) /\ \A k \in 1..Len(a) : a[k] = b[k]

\* C16: a forced stop, in whatever position the loop is, and the
\* cancellation that follows it leave the watermark as it is, which is the
\* value the latest completed cycle set (the value the aborted cycle was
\* called with), and take no alert back: every alert of the aborted cycle
\* is still in the channel.
C16_ForcedCancelKeepsWatermark ==
  /\ [](outcome = "cancelled" => since = run_since)
  /\ [](task \in {"cancelling", "cancelled"} => pc = "idle" \/ since = run_since)
  /\ [][ (task' = "cancelling" \/ task = "cancelling") =>
           /\ since' = since
           /\ IsPrefix(alerts, alerts')
           /\ IsPrefix(summaries, summaries') ]_vars

\* C16 witness: a cycle cancelled after it sent an alert, the watermark
\* being the one an earlier cycle committed.
C16_Witness ==
  /\ outcome = "cancelled"
  /\ task = "cancelled"
  /\ alerts # <<>>
  /\ since > 0
  /\ since < now

\* C17: a start while the loop is running leaves the loop as it is and
\* replies "Task is already running"; a stop, forced or not, while it is
\* not running leaves the loop as it is and replies "Task is not running"
\* (so repeating either changes nothing); there is at most one task; and
\* every start and stop sends exactly one reply.
C17_StartStopIdempotent ==
  [][ /\ (Start /\ is_running =>
             UNCHANGED loopState /\ replies' = <<"Task is already running">>)
      /\ (Start /\ ~is_running =>
             task' = "sleeping" /\ replies' = <<"Started task">>)
      /\ (Stop /\ ~is_running =>
             UNCHANGED loopState /\ replies' = <<"Task is not running">>)
      /\ (Stop /\ is_running =>
             replies' \in {<<"Forcing shutdown">>, <<"Executing graceful shutdown">>})
      /\ (Start \/ Stop => Len(replies') = 1) ]_vars

\* C17 witness: a start answered "Task is already running" in the middle
\* of the loop's second cycle.
C17_Witness ==
  /\ last_command.name = "start"
  /\ replies = <<"Task is already running">>
  /\ task = "cycle"
  /\ cycle >= 2
  /\ outcome = "running"

(***************************************************************************)
(* Claims about the report workflow, checked under SpecReport.             *)
(***************************************************************************)
Modals == 1..Len(modals)
Views == 1..Len(views)
Finished(i) == modals[i].st \in {"done", "failed"}
ViewsOf(i) == {v \in Views : views[v].previous_modal = i}
OpenedBy(v) == {i \in Modals : modals[i].view = v}

\* C4 (as claimed): a report call the service answered with a 4xx or 5xx
\* status ends, for the caller, in the typed failure that carries the
\* status (aiohttp's ClientResponseError); it never ends as a success.
C4_HttpErrorsSurfaceAsFailures ==
  \A i \in Modals :
    modals[i].status >= 400 =>
      modals[i].st = "failed" /\ modals[i].error = "ClientResponseError"

\* C5 (as claimed): when the service answered POST /report with HTTP 500,
\* the user is shown the fallback view of that modal, and "Reported!" was
\* not sent.
C5_Http500PresentsFallback ==
  \A i \in Modals :
    modals[i].status = 500 =>
      modals[i].resp = "fallback" /\ Cardinality(ViewsOf(i)) = 1

Successful(i) == i \in reported /\ modals[i].st = "done"

\* C7 (as claimed): no notification message has two successful report
\* submissions, and once a submission from a message has succeeded and the
\* callbacks of that message's modals have run, its Report button is
\* disabled.
C7_OneReportPerMessage ==
  \A m \in Messages :
    LET ok == {i \in Modals : modals[i].msg = m /\ Successful(i)}
    IN  /\ Cardinality(ok) <= 1
        /\ (ok # {} /\ \A i \in Modals : modals[i].msg = m => modals[i].cb # "wait" \/ modals[i].st = "open")
             => button[m].disabled

\* C8: a modal opened from a fallback view follows a submit that failed
\* with a ClientResponseError, is for the package of the failed modal, and
\* is of the other type when Yes opened it (email after API, API after
\* email) and of the same type when No opened it.
C8_FallbackSymmetry ==
  \A i \in Modals :
    modals[i].view # 0 =>
      LET v == views[modals[i].view]
          previous == modals[v.previous_modal]
      IN  /\ previous.st = "failed" /\ previous.error = "ClientResponseError"
          /\ modals[i].package = previous.package
          /\ modals[i].msg = previous.msg
          /\ modals[i].via = "confirm" =>
               /\ previous.kind = "api" => modals[i].kind = "email"
               /\ previous.kind = "email" => modals[i].kind = "api"
          /\ modals[i].via = "cancel" => modals[i].kind = previous.kind

\* C8 witness: Yes after a failed API attempt opened the email modal, and
\* Yes after that email attempt failed opened the API modal.
C8_Witness ==
  \E i, j \in Modals :
    /\ modals[i].via = "confirm" /\ modals[i].kind = "email"
    /\ modals[views[modals[i].view].previous_modal].kind = "api"
    /\ modals[j].via = "confirm" /\ modals[j].kind = "api"
    /\ modals[views[modals[j].view].previous_modal].kind = "email"

\* C9 (as claimed): a fallback view opens at most one modal, and once the
\* callback of a press has run both its buttons are disabled.
C9_ViewSingleUse ==
  \A v \in Views :
    /\ Cardinality(OpenedBy(v)) <= 1
    /\ (\E i \in OpenedBy(v) : modals[i].cb = "end") =>
         views[v].confirm_disabled /\ views[v].cancel_disabled

\* C13 (as claimed): a submit that has ended has an audit message exactly
\* when its report was filed upstream, and with no reporting call in flight
\* there are as many audit messages as filed reports.
C13_OneAuditPerFiledReport ==
  /\ \A i \in Modals : Finished(i) => (i \in audit <=> i \in reported)
  /\ (\A i \in Modals : modals[i].st # "report") => Cardinality(audit) = Cardinality(reported)

ReportFields == {"name", "version", "inspector_url", "additional_information", "recipient"}

C15_OtherErrorsGenericAndReraised ==
  \A i \in Modals :
    /\ modals[i].error = "other" =>
         /\ modals[i].st = "failed"
         /\ modals[i].resp = "generic"
         /\ modals[i].raised = modals[i].error
         /\ ViewsOf(i) = {}
    /\ modals[i].resp = "generic" => modals[i].error = "other"
    /\ modals[i].raised # "none" => modals[i].error = "other"

\* C15 witness: a submit whose reporting call got no answer (a connection
\* error or a timeout), after its audit message was sent.
C15_Witness ==
  \E i \in Modals :
    /\ modals[i].error = "other"
    /\ i \in audit
    /\ modals[i].raised = "other"


(***************************************************************************)
(* Claims about the token, checked under SpecToken.                        *)
(***************************************************************************)
\* the calls whose refresh was answered with a token
Refreshed == {c \in Calls : calls[c].got # 0}

\* C19: a call has made one refresh when the token was expired at its
\* check and none when it was not, never more than one; it has sent no
\* request before its check, while its refresh is unanswered or after its
\* refresh failed; and its request carries the token the service holds at
\* the moment the request is sent, which no earlier step of the call than
\* its check decides.
C19_RefreshIffExpired ==
  /\ [](\A c \in Calls :
          /\ calls[c].refreshes <= 1
          /\ calls[c].pc # "idle" =>
               calls[c].refreshes = (IF calls[c].expired THEN 1 ELSE 0)
          /\ calls[c].pc = "idle" => calls[c].refreshes = 0
          /\ calls[c].pc \in {"idle", "refreshing", "refreshed", "failed"} =>
               calls[c].sent_with = -1
          /\ calls[c].pc \in {"request", "done"} => calls[c].sent_with >= 0
          /\ calls[c].pc \in {"request", "done"} /\ calls[c].refreshes = 1 =>
               calls[c].sent_with >= calls[c].got /\ calls[c].got # 0)
  /\ [][\A c \in Calls :
          calls'[c].sent_with # calls[c].sent_with =>
            /\ calls'[c].sent_with = token
            /\ token' = token
            /\ calls[c].pc \in {"idle", "refreshed"}]_vars

\* C19 witness: a call that found the token valid and sent its request with
\* a token an earlier call's refresh had stored, beside that earlier call.
C19_Witness ==
  \E c, d \in Calls :
    /\ calls[c].pc = "done" /\ calls[c].refreshes = 0 /\ calls[c].sent_with >= 1
    /\ calls[d].pc = "done" /\ calls[d].refreshes = 1 /\ calls[d].got = calls[c].sent_with

\* C20: every call that found the token expired has made a refresh, whether
\* or not another call's refresh was in flight; and the token and expiry
\* held are those of the refresh response processed last (the initial ones
\* when none was processed).
C20_LastRefreshWins ==
  /\ [](\A c \in Calls : calls[c].expired /\ calls[c].pc # "idle" => calls[c].refreshes = 1)
  /\ [](IF Refreshed = {} THEN token = 0
        ELSE \E c \in Refreshed :
               /\ \A d \in Refreshed : calls[d].order <= calls[c].order
               /\ token = calls[c].got)
  /\ [][\A c \in Calls :
          (calls[c].pc = "refreshing" /\ calls'[c].pc = "refreshed") =>
            /\ token' = calls'[c].got
            /\ token_expires_at' \in {now + e : e \in ExpiresIn}
            /\ calls'[c].order > processed]_vars
  /\ [][token' # token \/ token_expires_at' # token_expires_at =>
          \E c \in Calls : calls[c].pc = "refreshing" /\ calls'[c].pc = "refreshed"]_vars

\* C20 witness: two calls that both saw the same expiry passed, both
\* refreshed, and have both completed; the token held is the one of the
\* refresh processed last, not the one the other call was answered with.
C20_Witness ==
  \E c, d \in Calls :
    /\ c # d
    /\ calls[c].pc = "done" /\ calls[d].pc = "done"
    /\ calls[c].expired /\ calls[d].expired
    /\ calls[c].seen = calls[d].seen
    /\ calls[c].refreshes = 1 /\ calls[d].refreshes = 1
    /\ calls[c].order < calls[d].order
    /\ token = calls[d].got
    /\ token # calls[c].got

(***************************************************************************)
(* C24.  No finished scan result is skipped: when a cycle has succeeded,   *)
(* the watermark the next cycle will query with is not later than the      *)
(* moment this cycle's fetch was answered, so that whatever finished after *)
(* that answer is returned by the next cycle's query.                      *)
(***************************************************************************)
C24_SinceNotLaterThanFetch == outcome = "ok" => since <= fetched_at

(***************************************************************************)
(* The lookup command beside the threshold commands.                       *)
(***************************************************************************)
NextLookup ==
  \/ ThresholdSet
  \/ ThresholdGet
  \/ Lookup

SpecLookup == InitLoop /\ [][NextLookup]_vars

(***************************************************************************)
(* C21.  A lookup responds exactly once: with the embed of a matching      *)
(* record together with a view carrying the Report button for that record  *)
(* when a record matches, and with the message that no entries were found  *)
(* when none does.                                                         *)
(***************************************************************************)
C21_LookupRespondsWithReportEntry ==
  last_command.name = "lookup" =>
    /\ lookup_response.sent = 1
    /\ \/ /\ lookup_response.kind = "embed"
          /\ Matches(lookup_response.record, lookup_response.name, lookup_response.version)
          /\ lookup_response.view
       \/ lookup_response.kind = "No entries were found"

(***************************************************************************)
(* C28.  The embed of a lookup is titled "Malicious" exactly when the      *)
(* record's score is at least the cog's current score threshold, the value *)
(* last set by `threshold set`.                                            *)
(***************************************************************************)
C28_LookupUsesCurrentThreshold ==
  [][Lookup /\ lookup_response'.kind = "embed" =>
       (lookup_response'.title = "Malicious"
          <=> lookup_response'.record.score >= score_threshold)]_vars

(***************************************************************************)
(* The threat-intelligence watcher on its own.                             *)
(***************************************************************************)
NextFeed ==
  \/ WatcherCycle

SpecFeed == InitLoop /\ [][NextFeed]_vars

(***************************************************************************)
(* C29.  The watcher announces each report file at most once over any      *)
(* sequence of its cycles, and a cycle that finds nothing seen yet         *)
(* announces nothing and only records the paths of the download.           *)
(***************************************************************************)
C29_AnnouncedAtMostOnce ==
  /\ [](\A path \in Paths : feed.announced[path] <= 1)
  /\ [][feed.reports_seen = {} /\ feed' # feed =>
          feed'.latest = {} /\ feed'.announced = feed.announced]_vars

(***************************************************************************)
(* The webhook remover on its own.                                         *)
(***************************************************************************)
NextWebhook ==
  \/ OnMessage
  \/ OnMessageEdit

SpecWebhook == InitLoop /\ [][NextWebhook]_vars

(***************************************************************************)
(* C30.  For a message that meets the exemption (its content is not the    *)
(* webhook URL alone, it is in the SOC category, its author holds the      *)
(* security role) no DELETE request is sent for the webhook and the        *)
(* message is kept; and the log sent to the moderator-alerts channel never *)
(* contains the webhook's token.                                           *)
(***************************************************************************)
C30_ExemptMessageNotActioned ==
  /\ Exempt(webhook.message) =>
       /\ \A i \in 1..Len(webhook.requests) : webhook.requests[i] # "DELETE"
       /\ ~webhook.deleted
  /\ \A i \in 1..Len(webhook.mod_alerts) :
       \A j \in 1..Len(webhook.mod_alerts[i].url) :
         webhook.mod_alerts[i].url[j] # WebhookToken

(***************************************************************************)
(* Report modals of the views of several alerted packages.                 *)
(***************************************************************************)
NextIsolation ==
  \/ ReportPressed
  \/ Submit
  \/ ReportCall
  \/ PressConfirm
  \/ PressCancel

SpecIsolation == Init /\ [][NextIsolation]_vars

(***************************************************************************)
(* C22.  Report workflow instances are isolated: whatever modals were      *)
(* built, opened and submitted in between, every modal carries the title   *)
(* and the default inspector URL of its own package, a modal opened from a *)
(* fallback view is for the package of the modal that failed, the report   *)
(* a modal submits names its own package, and no step of the workflow      *)
(* writes the threshold or the watermark.                                  *)
(***************************************************************************)
C22_ReportWorkflowsIsolated ==
  /\ [](\A i \in 1..Len(modals) :
          /\ modals[i].title = _build_modal_title(modals[i].package.name,
                                                  modals[i].package.version)
          /\ modals[i].default = inspector_url(modals[i].package)
          /\ modals[i].via \in {"confirm", "cancel"} =>
               modals[i].package = modals[views[modals[i].view].previous_modal].package
          /\ modals[i].report # NoReport =>
               /\ modals[i].report.name = modals[i].package.name
               /\ modals[i].report.version = modals[i].package.version)
  /\ [][score_threshold' = score_threshold /\ since' = since]_vars

\* C22 witness: two modals of the same class built one after the other for
\* different packages, one of them with a title that is cut, and both have
\* submitted a report that the service accepted.
C22_Witness ==
  \E i, j \in 1..Len(modals) :
    /\ i < j
    /\ modals[i].kind = modals[j].kind
    /\ modals[i].package # modals[j].package
    /\ modals[i].title.ellipsis # modals[j].title.ellipsis
    /\ modals[i].st = "done" /\ modals[j].st = "done"
    /\ {i, j} \subseteq reported

(***************************************************************************)
(* The classification run twice on one batch.                              *)
(***************************************************************************)
NextClassify ==
  \/ ScanLoopBegin
  \/ Fetch
  \/ Classify
  \/ Summary
  \/ RunAgain

SpecClassify == InitLoop /\ [][NextClassify]_vars

\* run has returned twice for the same batch and the same threshold
RanTwice == outcome = "ok" /\ Len(summaries) = 2

\* the alerts of the first of two calls of run
FirstAlerts == SubSeq(alerts, 1, Len(alerts) \div 2)

(***************************************************************************)
(* C23.  Idempotent classification: for a fixed threshold and a fixed      *)
(* batch, running the classification twice alerts the same results and     *)
(* sends the same summary listing both times, and no step of the           *)
(* classification changes the batch, the threshold or the watermark.       *)
(***************************************************************************)
C23_ClassificationIdempotent ==
  /\ [](RanTwice =>
          /\ alerts = FirstAlerts \o FirstAlerts
          /\ \A i \in 1..Len(scan_results) :
               Alertable(scan_results[i]) <=>
                 \E k \in 1..Len(FirstAlerts) : FirstAlerts[k] = [idx |-> i, pkg |-> scan_results[i]]
          /\ summaries[1] = summaries[2])
  /\ [][Classify =>
          /\ scan_results' = scan_results
          /\ run_score' = run_score
          /\ score_threshold' = score_threshold
          /\ since' = since]_vars

\* C23 witness: run has returned twice for a batch of two results, of which
\* one is at or above the threshold and one below it, and the alert was
\* sent both times.
C23_Witness ==
  /\ RanTwice
  /\ Len(scan_results) = 2
  /\ \E i, j \in 1..2 : Alertable(scan_results[i]) /\ ~Alertable(scan_results[j])
  /\ Len(alerts) = 2

(***************************************************************************)
(* One triage alert: its buttons, its report modals and its note modals.   *)
(***************************************************************************)
NextTriage ==
  \/ TriagePressReport
  \/ TriageModalSubmit
  \/ TriageReportResumes
  \/ PressApprove
  \/ PressAddNote
  \/ NoteSubmit

SpecTriage == InitLoop /\ [][NextTriage]_vars

(***************************************************************************)
(* C25.  On a triage alert the Report and the Approve button are never     *)
(* both disabled, neither on the view nor on the message as it is shown,   *)
(* under any interleaving of Report presses, report-modal submits and      *)
(* Approve presses.                                                        *)
(***************************************************************************)
C25_NeverBothDisabled ==
  /\ ~(triage.report_disabled /\ triage.approve_disabled)
  /\ ~(triage.shown.report_disabled /\ triage.shown.approve_disabled)

\* the lines of the Event log field of the embed as the message shows it
ShownEvents ==
  UNION {{triage.shown.fields[i].value[k] : k \in 1..Len(triage.shown.fields[i].value)} :
           i \in {j \in 1..Len(triage.shown.fields) : triage.shown.fields[j].name = "Event log"}}

(***************************************************************************)
(* C26.  Whenever the embed shown on a triage alert carries the status     *)
(* "Flagged as malicious" or a "Reported by" entry in its event log, a     *)
(* report was submitted through the report modal: a Report press whose     *)
(* modal is never submitted leaves neither visible, also after a later     *)
(* Approve press or note.                                                  *)
(***************************************************************************)
C26_ReportedShownOnlyIfSubmitted ==
  triage.shown.footer = "Flagged as malicious" \/ "Reported by" \in ShownEvents
    => triage.submitted > 0

\* the embed's fields named `name`
FieldsNamed(name) == {i \in 1..Len(triage.fields) : triage.fields[i].name = name}

(***************************************************************************)
(* C27.  A note can be added from every embed state: NoteModal.on_submit   *)
(* never raises, it leaves the Notes field with the earlier notes followed *)
(* by the new one, keeps the Event log's content, puts Notes before the    *)
(* Event log, and the embed never has more than one Notes field or more    *)
(* than one Event log field.                                               *)
(***************************************************************************)
C27_NoteAddedFromEveryState ==
  /\ [](triage.note_result # "raised")
  /\ [](Cardinality(FieldsNamed("Notes")) <= 1 /\ Cardinality(FieldsNamed("Event log")) <= 1)
  /\ [][NoteSubmit =>
          /\ triage'.fields[1].name = "Notes"
          /\ triage'.fields[1].value = NotesRead(triage.fields, "note")
          /\ \A i \in FieldsNamed("Event log") :
               /\ Len(triage'.fields) = 2
               /\ triage'.fields[2] = triage.fields[i]]_vars


=============================================================================
